---------------------------- MODULE Spec2Model ----------------------------
(***************************************************************************)
(* Trial extraction, normalisation and train/validation/test assignment of *)
(* the handwriting-decoding scripts:                                       *)
(*   classify_characters_logistic_regression.py  (organize_data)           *)
(*   visualize_characters.py                     (prepare_data)            *)
(*                                                                         *)
(* Python lists and numpy arrays are 0-based; TLA+ sequences are 1-based.  *)
(* Bin and trial indices keep the 0-based values of the code, and the      *)
(* operators below add 1 where a sequence is indexed.                      *)
(***************************************************************************)
EXTENDS Integers, Sequences, FiniteSets, TLC

(***************************************************************************)
(* Bounds of the model and the shape of the synthetic recordings.          *)
(***************************************************************************)
MaxTrials == 4

\* Every trial of a synthetic recording occupies Layout.trial bins: its delay
\* cue opens it and its go cue follows Layout.delay bins later.
Layout == [trial |-> 150, delay |-> 40]
Leads == {0, 60}          \* bins recorded before the first delay cue
Tails == {0, 60}          \* bins recorded after the last trial's 150 bins
Channels == {1, 2}
ChannelKinds == {"const", "cycle", "step"}

(***************************************************************************)
(* Program constants.                                                      *)
(***************************************************************************)
REACTION_TIME_BINS == 10
TRAINING_WINDOW_BINS == 150
PRE_GO_CUE_BINS == 50
POST_GO_CUE_BINS == 120
REST == "doNothing"

ascii_lowercase ==
    << "a", "b", "c", "d", "e", "f", "g", "h", "i", "j", "k", "l", "m",
       "n", "o", "p", "q", "r", "s", "t", "u", "v", "w", "x", "y", "z" >>

\* ALL_CHARS of the classifier (no rest token) and of the visualizer.
ALL_CHARS ==
    ascii_lowercase \o << "greaterThan", "tilde", "questionMark", "apostrophe", "comma" >>

ALL_CHARS_VIS ==
    << "doNothing" >> \o ascii_lowercase
        \o << "greaterThan", "tilde", "questionMark", "apostrophe", "comma" >>

Range(f) == { f[x] : x \in DOMAIN f }

\* {char: idx for idx, char in enumerate(chars)}: a later duplicate overwrites.
CharToClass(chars) ==
    [ c \in Range(chars) |->
        (CHOOSE i \in 1..Len(chars) :
            /\ chars[i] = c
            /\ \A j \in 1..Len(chars) : chars[j] = c => j <= i) - 1 ]

\* {idx: char for idx, char in enumerate(chars)}
ClassToChar(chars) == [ i \in 0..(Len(chars) - 1) |-> chars[i + 1] ]

CHAR_TO_CLASS_MAP == CharToClass(ALL_CHARS)
CLASS_TO_CHAR_MAP == ClassToChar(ALL_CHARS)
CHAR_TO_CLASS_MAP_VIS == CharToClass(ALL_CHARS_VIS)
CLASS_TO_CHAR_MAP_VIS == ClassToChar(ALL_CHARS_VIS)

\* Lookup as dict.get(key, 0) would do it: class 0 for a key the dict lacks.
LookupOrZero(table, key) == IF key \in DOMAIN table THEN table[key] ELSE 0

\* table[label]: a dict lookup, a KeyError for a key the dict does not hold.
KeyError == -1
Lookup(table, key) == IF key \in DOMAIN table THEN table[key] ELSE KeyError

(***************************************************************************)
(* Floating point values, as far as the pipeline tells them apart: a       *)
(* finite value n / sqrt(d) with d > 0, NaN, +Inf and -Inf.  The samples   *)
(* of the model are small integers, for which numpy's sums, means and      *)
(* deviations are exact.                                                   *)
(***************************************************************************)
Fin(n, d) == [k |-> "fin", n |-> n, d |-> IF n = 0 THEN 1 ELSE d]
Zero == Fin(0, 1)
NaN == [k |-> "nan", n |-> 0, d |-> 1]
PosInf == [k |-> "inf", n |-> 0, d |-> 1]
NegInf == [k |-> "ninf", n |-> 0, d |-> 1]
Smoothed == [k |-> "smoothed", n |-> 0, d |-> 1]
IsZero(v) == v.k = "fin" /\ v.n = 0

RECURSIVE GCD(_, _)
GCD(a, b) == IF b = 0 THEN a ELSE GCD(b, a % b)

\* NanToNum with the infinities left in place.
NanToNumNanOnly(v) == IF v.k = "nan" THEN Zero ELSE v

\* np.nan_to_num(x, nan=0, posinf=0, neginf=0)
NanToNum(v) == IF v.k \in {"nan", "inf", "ninf"} THEN Zero ELSE v

\* (x - mean) / stddev under np.errstate(divide="ignore", invalid="ignore").
\* mean is num/den and stddev is sqrt(rad)/den; den = 0 stands for the NaN
\* that np.mean and np.std return on an empty array.
Divide(x, mean, std) ==
    IF mean.den = 0 \/ std.den = 0 THEN NaN
    ELSE LET a == x * mean.den - mean.num
             g == GCD(mean.den, std.den)
         IN  IF std.rad = 0
             THEN IF a = 0 THEN NaN ELSE IF a > 0 THEN PosInf ELSE NegInf
             ELSE Fin(a * (std.den \div g),
                      std.rad * (mean.den \div g) * (mean.den \div g))

ZScore(x, mean, std) == NanToNum(Divide(x, mean, std))

(***************************************************************************)
(* Python slicing a[start:stop] of a sequence of length n: a negative      *)
(* index counts from the end, and both ends are clamped to 0..n.  The      *)
(* result is the pair of 0-based bounds <<lo, hi>>, empty when hi <= lo.   *)
(***************************************************************************)
SliceIndex(n, i) ==
    IF i < 0 THEN (IF i + n < 0 THEN 0 ELSE i + n)
    ELSE IF i > n THEN n ELSE i

SliceBounds(n, start, stop) ==
    LET lo == SliceIndex(n, start)
        hi == SliceIndex(n, stop)
    IN  << lo, IF hi < lo THEN lo ELSE hi >>

SliceLen(n, start, stop) ==
    LET b == SliceBounds(n, start, stop) IN b[2] - b[1]


(***************************************************************************)
(* One session's data dict.  The arrays the loader returns are held in a   *)
(* compact form (the trials per block, the prompts, the recording's lead   *)
(* and tail, the kind of signal on each channel) and the operators below   *)
(* give the arrays of the code: neuralActivityTimeSeries, the cue bins,    *)
(* blockNumsTimeSeries, blockList, meansPerBlock and stdAcrossAllData.     *)
(***************************************************************************)
RECURSIVE SumSeq(_)
SumSeq(q) == IF q = << >> THEN 0 ELSE Head(q) + SumSeq(Tail(q))

MkSession(sizes, prompts, lead, tail, kinds, vstd) ==
    [sizes |-> sizes, prompts |-> prompts, lead |-> lead, tail |-> tail,
     kinds |-> kinds, vstd |-> vstd]

NumTrials(s) == SumSeq(s.sizes)
NumBins(s) == s.lead + NumTrials(s) * Layout.trial + s.tail

\* delayPeriodOnsetTimeBin and goPeriodOnsetTimeBin of trial t (0-based).
delay_cue_bins(s, t) == s.lead + t * Layout.trial
go_cue_bins(s, t) == delay_cue_bins(s, t) + Layout.delay
prompts(s, t) == s.prompts[t + 1]

\* blockList: the k-th block of a session carries the number 10 * k.
block_nums(s) == [ k \in 1..Len(s.sizes) |-> 10 * k ]

\* The session's trial (0-based) whose 150 bins hold bin b; the lead belongs
\* to the first trial's block and the tail to the last one's.
TrialOfBin(s, b) ==
    IF b < s.lead THEN 0
    ELSE LET t == (b - s.lead) \div Layout.trial
         IN  IF t >= NumTrials(s) THEN NumTrials(s) - 1 ELSE t

RECURSIVE BlockOfTrial(_, _, _)
BlockOfTrial(sizes, t, k) ==
    IF k >= Len(sizes) \/ t < sizes[k] THEN k
    ELSE BlockOfTrial(sizes, t - sizes[k], k + 1)

\* blockNumsTimeSeries[b]
block_by_bin(s, b) == block_nums(s)[BlockOfTrial(s.sizes, TrialOfBin(s, b), 1)]

\* neuralActivityTimeSeries[b][c]: a channel that is constant at 5, one that
\* cycles through 0, 1, 2, and one that steps from 5 to 7 to 3 at the second
\* and third delay cue.
neural(s, b, c) ==
    CASE s.kinds[c] = "const" -> 5
      [] s.kinds[c] = "cycle" -> b % 3
      [] OTHER -> IF b < delay_cue_bins(s, 1) THEN 5
                  ELSE IF b < delay_cue_bins(s, 2) THEN 7 ELSE 3

\* meansPerBlock[block_idx] and stdAcrossAllData, precomputed in the file.
meansPerBlock(s, block_idx) == [ c \in Channels |-> [num |-> IF c = 1 THEN 5 ELSE 1, den |-> 1] ]
stdAcrossAllData(s) == [ c \in Channels |-> [rad |-> s.vstd[c] * s.vstd[c], den |-> 1] ]

(***************************************************************************)
(* organize_data, lines 165-185: the trials of a block, the train          *)
(* designation and the block's reference statistics.                       *)
(***************************************************************************)
\* block_trial_mask: the session's trials whose go cue bin lies in the block,
\* in trial order (the i-th entry is the block-local trial i - 1).
RECURSIVE SelectTrials(_, _, _)
SelectTrials(s, block_num, t) ==
    IF t >= NumTrials(s) THEN << >>
    ELSE (IF block_by_bin(s, go_cue_bins(s, t)) = block_num THEN << t >> ELSE << >>)
            \o SelectTrials(s, block_num, t + 1)

BlockTrials(s, block_num) == SelectTrials(s, block_num, 0)

\* TrainEndIdx with rounding to the nearest integer in place of truncation.
TrainEndIdxRounded(n) == (n * 6 + 5) \div 10

\* int(num_trials_in_block * 0.6).  The product is a binary double; its
\* truncation equals floor(6n/10) for every n below 200000.
TrainEndIdx(n) == (n * 6) \div 10

\* random.shuffle(list(range(n))): every order of 0..n-1 can come out.
Shuffles(n) ==
    { p \in [1..n -> 0..(n - 1)] : \A i, j \in 1..n : p[i] = p[j] => i = j }

\* RefTrials with the guard one trial early: the block's last two trials are
\* left out.
RefTrialsOffByOne(n, train) == SelectSeq(train, LAMBDA idx : ~ (idx + 2 >= n))

\* Lines 176-182: the train trials whose bins are extended into
\* neural_to_zscore_based_on, the block's last trial left out, and the
\* <<start_bin, end_bin>> of the bins one of them adds.
RefTrials(n, train) == SelectSeq(train, LAMBDA idx : ~ (idx + 1 >= n))

RefRange(s, trials, idx) ==
    << delay_cue_bins(s, trials[idx + 1]), delay_cue_bins(s, trials[idx + 2]) >>

\* Sum over the bins lo..hi-1 of channel c's samples (pow = 1) or of their
\* squares (pow = 2).
RECURSIVE SumBins(_, _, _, _, _)
SumBins(s, c, lo, hi, pow) ==
    IF lo >= hi THEN 0
    ELSE IF hi = lo + 1
         THEN (IF pow = 1 THEN neural(s, lo, c) ELSE neural(s, lo, c) * neural(s, lo, c))
         ELSE LET mid == (lo + hi) \div 2
              IN  SumBins(s, c, lo, mid, pow) + SumBins(s, c, mid, hi, pow)

\* neural[start_bin:end_bin] as what the mean and the stddev need of it: per
\* channel, the number of bins, the sum of the samples and of their squares.
RangeSums(s, range) ==
    LET b == SliceBounds(NumBins(s), range[1], range[2])
    IN  [ c \in Channels |->
            [cnt |-> b[2] - b[1],
             sum |-> SumBins(s, c, b[1], b[2], 1),
             sq |-> SumBins(s, c, b[1], b[2], 2)] ]

RECURSIVE Total(_, _, _)
Total(parts, c, field) ==
    IF parts = << >> THEN 0 ELSE Head(parts)[c][field] + Total(Tail(parts), c, field)

\* np.mean(neural_to_zscore_based_on, axis=0)[c] as sum / count.
Mean(parts, c) == [num |-> Total(parts, c, "sum"), den |-> Total(parts, c, "cnt")]

\* np.std(neural_to_zscore_based_on, axis=0)[c] as
\* sqrt(count * sum of squares - sum^2) / count.
Std(parts, c) ==
    LET k == Total(parts, c, "cnt")
        m == Total(parts, c, "sum")
    IN  [rad |-> k * Total(parts, c, "sq") - m * m, den |-> k]

(***************************************************************************)
(* The state of a run.                                                     *)
(***************************************************************************)
VARIABLES
    prog,                       \* which script runs: "classify" or "visualize"
    data_dicts,                 \* what load_data returned
    pc,                         \* where the run stands
    si, bi, trial_idx,          \* session (from 1), block (from 1), trial (from 0)
    train_trial_idxs,
    neural_to_zscore_based_on,  \* as <<start_bin, end_bin>> pairs
    block_means, block_stddevs,
    X_train, X_validation, X_test,
    y_train, y_validation, y_test,
    src_train, src_validation, src_test,    \* provenance of each appended trial
    validation_count_by_char, test_count_by_char,
    zscored_neural_activity,
    trial_neural_activities, trial_labels, trial_session_idxs, trial_block_idxs,
    run, first_run              \* the run's number and what the run before it returned

pos == << pc, si, bi, trial_idx >>
block_vars == << train_trial_idxs, neural_to_zscore_based_on, block_means, block_stddevs >>
X_vars == << X_train, X_validation, X_test >>
y_vars == << y_train, y_validation, y_test >>
src_vars == << src_train, src_validation, src_test >>
count_vars == << validation_count_by_char, test_count_by_char >>
vis_vars == << zscored_neural_activity, trial_neural_activities, trial_labels,
               trial_session_idxs, trial_block_idxs >>
run_vars == << run, first_run >>
vars == << prog, data_dicts, pos, block_vars, X_vars, y_vars, src_vars, count_vars,
           vis_vars, run_vars >>

Session == data_dicts[si]
BlockNum == block_nums(Session)[bi]
CurrentTrials == BlockTrials(Session, BlockNum)

\* collections.Counter: a key never counted reads as 0.
EmptyCounter == [ x \in {} |-> 0 ]
Count(counter, key) == IF key \in DOMAIN counter THEN counter[key] ELSE 0
Increment(counter, key) ==
    [ x \in DOMAIN counter \cup {key} |->
        IF x = key THEN Count(counter, key) + 1 ELSE counter[x] ]

Contains(list, x) == \E i \in 1..Len(list) : list[i] = x

(***************************************************************************)
(* organize_data                                                           *)
(***************************************************************************)
\* What follows a block's last trial: the session's next block, the next
\* session's first block, or the code after the loops (line 229).
NextBlock ==
    IF bi < Len(block_nums(Session))
    THEN /\ bi' = bi + 1 /\ si' = si /\ pc' = "block"
    ELSE IF si < Len(data_dicts)
         THEN /\ si' = si + 1 /\ bi' = 1 /\ pc' = "block"
         ELSE /\ si' = si /\ bi' = bi /\ pc' = "smooth"

\* Lines 162-187: shuffle the block's trial indices, designate the first 60%
\* train, and take the means and stddevs of the train trials' bins.
StartBlock ==
    /\ prog = "classify" /\ pc = "block"
    /\ \E trials \in {CurrentTrials} :
       \E sums \in { [ i \in 1..(Len(trials) - 1) |->
                        RangeSums(Session, RefRange(Session, trials, i - 1)) ] } :
       LET num_trials_in_block == Len(trials)
       IN  \E random_trial_idxs \in Shuffles(num_trials_in_block) :
             LET train == SubSeq(random_trial_idxs, 1, TrainEndIdx(num_trials_in_block))
                 ref == RefTrials(num_trials_in_block, train)
                 parts == [ k \in 1..Len(ref) |-> sums[ref[k] + 1] ]
             IN  /\ train_trial_idxs' = train
                 /\ neural_to_zscore_based_on' =
                        [ k \in 1..Len(ref) |-> RefRange(Session, trials, ref[k]) ]
                 /\ block_means' = [ c \in Channels |-> Mean(parts, c) ]
                 /\ block_stddevs' = [ c \in Channels |-> Std(parts, c) ]
                 /\ trial_idx' = 0
                 /\ IF num_trials_in_block = 0
                    THEN NextBlock
                    ELSE /\ pc' = "trial" /\ si' = si /\ bi' = bi
    /\ UNCHANGED << prog, data_dicts, X_vars, y_vars, src_vars, count_vars, vis_vars, run_vars >>

\* Lines 190-200: neural[window_start_bin:window_end_bin], z-scored with the
\* block's means and stddevs, non-finite values replaced by 0.
TrialWindow(s, go_cue_bin, means, stddevs) ==
    LET window_start_bin == go_cue_bin + REACTION_TIME_BINS
        window_end_bin == window_start_bin + TRAINING_WINDOW_BINS
        b == SliceBounds(NumBins(s), window_start_bin, window_end_bin)
    IN  [ i \in 1..(b[2] - b[1]) |->
            [ c \in Channels |-> ZScore(neural(s, b[1] + i - 1, c), means[c], stddevs[c]) ] ]

\* Route with the test count compared with itself: never validation.
RouteNoBalance(trial_label, idx, train, validation_count, test_count) ==
    IF trial_label = REST THEN "skip"
    ELSE IF Contains(train, idx) THEN "train"
    ELSE IF Count(test_count, trial_label) < Count(test_count, trial_label)
         THEN "validation"
         ELSE "test"

\* Route with <= in place of <: equal counts go to validation.
RouteTiesToValidation(trial_label, idx, train, validation_count, test_count) ==
    IF trial_label = REST THEN "skip"
    ELSE IF Contains(train, idx) THEN "train"
    ELSE IF Count(validation_count, trial_label) <= Count(test_count, trial_label)
         THEN "validation"
         ELSE "test"

\* Route without the rest check of lines 205-207.
RouteKeepsRest(trial_label, idx, train, validation_count, test_count) ==
    IF Contains(train, idx) THEN "train"
    ELSE IF Count(validation_count, trial_label) < Count(test_count, trial_label)
         THEN "validation"
         ELSE "test"

\* Lines 205-227: where a trial goes.
Route(trial_label, idx, train, validation_count, test_count) ==
    IF trial_label = REST THEN "skip"
    ELSE IF Contains(train, idx) THEN "train"
    ELSE IF Count(validation_count, trial_label) < Count(test_count, trial_label)
         THEN "validation"
         ELSE "test"

\* AppendsTo with the else of line 214 lost: a train trial goes on to test.
AppendsToFallThrough(route, set) == route = set \/ (route = "train" /\ set = "test")

\* The branches of lines 211-227 exclude one another: a trial is appended to
\* the one set its route names.
AppendsTo(route, set) == route = set

\* One iteration of the loop of line 188.
ProcessTrial ==
    /\ prog = "classify" /\ pc = "trial"
    /\ LET t == CurrentTrials[trial_idx + 1]
           trial_zscored_neural ==
               TrialWindow(Session, go_cue_bins(Session, t), block_means, block_stddevs)
           trial_label == prompts(Session, t)
           route == Route(trial_label, trial_idx, train_trial_idxs,
                          validation_count_by_char, test_count_by_char)
           from == << si, BlockNum, trial_idx >>
       IN  /\ IF AppendsTo(route, "train")
              THEN /\ X_train' = Append(X_train, trial_zscored_neural)
                   /\ y_train' = Append(y_train, trial_label)
                   /\ src_train' = Append(src_train, from)
              ELSE UNCHANGED << X_train, y_train, src_train >>
           /\ IF AppendsTo(route, "validation")
              THEN /\ X_validation' = Append(X_validation, trial_zscored_neural)
                   /\ y_validation' = Append(y_validation, trial_label)
                   /\ src_validation' = Append(src_validation, from)
                   /\ validation_count_by_char' =
                          Increment(validation_count_by_char, trial_label)
              ELSE UNCHANGED << X_validation, y_validation, src_validation,
                                validation_count_by_char >>
           /\ IF AppendsTo(route, "test")
              THEN /\ X_test' = Append(X_test, trial_zscored_neural)
                   /\ y_test' = Append(y_test, trial_label)
                   /\ src_test' = Append(src_test, from)
                   /\ test_count_by_char' = Increment(test_count_by_char, trial_label)
              ELSE UNCHANGED << X_test, y_test, src_test, test_count_by_char >>
    /\ IF trial_idx + 1 < Len(CurrentTrials)
       THEN /\ trial_idx' = trial_idx + 1 /\ pc' = "trial" /\ si' = si /\ bi' = bi
       ELSE /\ trial_idx' = trial_idx /\ NextBlock
    /\ UNCHANGED << prog, data_dicts, block_vars, vis_vars, run_vars >>

\* np.array over a list of windows of unequal length: a ValueError, or an
\* array of objects, with the numpy at hand.
Ragged(X) == \E i, j \in 1..Len(X) : Len(X[i]) # Len(X[j])

\* gaussian_filter1d(w, sigma=3.0, axis=0): as many bins as w holds; a channel
\* that is 0 in every bin of w stays 0, any other becomes a weighted mean of
\* its samples.
Smooth(w) ==
    LET row == [ c \in Channels |->
                   IF \A j \in 1..Len(w) : IsZero(w[j][c]) THEN Zero ELSE Smoothed ]
    IN  [ i \in 1..Len(w) |-> row ]

SmoothAll(X) == [ i \in 1..Len(X) |-> Smooth(X[i]) ]

\* [CHAR_TO_CLASS_MAP[ch] for ch in y]
Encode(y) == [ i \in 1..Len(y) |-> Lookup(CHAR_TO_CLASS_MAP, y[i]) ]
Raises(encoded) == \E i \in 1..Len(encoded) : encoded[i] = KeyError

\* Lines 229-239 on windows of unequal length, where np.array raises.
SmoothValueError ==
    /\ prog = "classify" /\ pc = "smooth"
    /\ Ragged(X_train) \/ Ragged(X_validation) \/ Ragged(X_test)
    /\ pc' = "ValueError"
    /\ UNCHANGED << prog, data_dicts, si, bi, trial_idx, block_vars, X_vars, y_vars,
                    src_vars, count_vars, vis_vars, run_vars >>

\* Lines 229-244 on a label CHAR_TO_CLASS_MAP does not hold.
EncodeKeyError ==
    /\ prog = "classify" /\ pc = "smooth"
    /\ Raises(Encode(y_train)) \/ Raises(Encode(y_validation)) \/ Raises(Encode(y_test))
    /\ pc' = "KeyError"
    /\ X_train' = SmoothAll(X_train)
    /\ X_validation' = SmoothAll(X_validation)
    /\ X_test' = SmoothAll(X_test)
    /\ UNCHANGED << prog, data_dicts, si, bi, trial_idx, block_vars, y_vars,
                    src_vars, count_vars, vis_vars, run_vars >>

\* Lines 229-253: smooth every window, encode every label, return.
Finish ==
    /\ prog = "classify" /\ pc = "smooth"
    /\ ~ (Raises(Encode(y_train)) \/ Raises(Encode(y_validation)) \/ Raises(Encode(y_test)))
    /\ pc' = "done"
    /\ X_train' = SmoothAll(X_train)
    /\ X_validation' = SmoothAll(X_validation)
    /\ X_test' = SmoothAll(X_test)
    /\ y_train' = Encode(y_train)
    /\ y_validation' = Encode(y_validation)
    /\ y_test' = Encode(y_test)
    /\ UNCHANGED << prog, data_dicts, si, bi, trial_idx, block_vars,
                    src_vars, count_vars, vis_vars, run_vars >>

(***************************************************************************)
(* prepare_data                                                            *)
(***************************************************************************)
\* Storing a float64 in the float32 array made by np.zeros_like: 0 and the
\* non-finite values are kept, any other value is rounded to a float32.
ToFloat32(v) ==
    IF v.k = "fin" /\ v.n # 0 THEN [k |-> "fin32", n |-> v.n, d |-> v.d] ELSE v

\* Lines 148-161: bin b of zscored_neural_activity, 0 where no listed block
\* holds the bin.
ZScoredBin(s, b) ==
    LET blocks == block_nums(s)
    IN  [ c \in Channels |->
            IF \E block_idx \in 1..Len(blocks) : blocks[block_idx] = block_by_bin(s, b)
            THEN LET block_idx == CHOOSE k \in 1..Len(blocks) : blocks[k] = block_by_bin(s, b)
                 IN  ToFloat32(ZScore(neural(s, b, c), meansPerBlock(s, block_idx)[c],
                                      stdAcrossAllData(s)[c]))
            ELSE Zero ]

\* What follows a session's last trial: the next session, or line 185.
NextSession ==
    IF si < Len(data_dicts)
    THEN /\ si' = si + 1 /\ pc' = "session"
    ELSE /\ si' = si /\ pc' = "stack"

\* Lines 139-167: z-score the session block by block.
ZScoreSession ==
    /\ prog = "visualize" /\ pc = "session"
    /\ zscored_neural_activity' =
           [ i \in 1..NumBins(Session) |-> ZScoredBin(Session, i - 1) ]
    /\ trial_idx' = 0
    /\ IF NumTrials(Session) = 0 THEN NextSession ELSE /\ pc' = "vtrial" /\ si' = si
    /\ UNCHANGED << prog, data_dicts, bi, block_vars, X_vars, y_vars, src_vars, count_vars,
                    trial_neural_activities, trial_labels, trial_session_idxs,
                    trial_block_idxs, run_vars >>

\* Lines 172-176: zscored_neural_activity[window_start_bin:window_end_bin].
CueWindow(zscored, go_cue_bin) ==
    LET window_start_bin == go_cue_bin - PRE_GO_CUE_BINS
        window_end_bin == go_cue_bin + POST_GO_CUE_BINS
        b == SliceBounds(Len(zscored), window_start_bin, window_end_bin)
    IN  SubSeq(zscored, b[1] + 1, b[2])

\* One iteration of the loop of line 170.
WindowTrial ==
    /\ prog = "visualize" /\ pc = "vtrial"
    /\ LET go_cue_bin == go_cue_bins(Session, trial_idx)
       IN  /\ trial_neural_activities' =
                  Append(trial_neural_activities, CueWindow(zscored_neural_activity, go_cue_bin))
           /\ trial_labels' = Append(trial_labels, prompts(Session, trial_idx))
           /\ trial_session_idxs' = Append(trial_session_idxs, si - 1)
           /\ trial_block_idxs' =
                  Append(trial_block_idxs, << si - 1, block_by_bin(Session, go_cue_bin) >>)
    /\ IF trial_idx + 1 < NumTrials(Session)
       THEN /\ trial_idx' = trial_idx + 1 /\ pc' = "vtrial" /\ si' = si
       ELSE /\ trial_idx' = trial_idx /\ NextSession
    /\ UNCHANGED << prog, data_dicts, bi, block_vars, X_vars, y_vars, src_vars, count_vars,
                    zscored_neural_activity, run_vars >>

\* Lines 185-196 on windows of unequal length, where np.array raises.
StackValueError ==
    /\ prog = "visualize" /\ pc = "stack"
    /\ Ragged(trial_neural_activities)
    /\ pc' = "ValueError"
    /\ UNCHANGED << prog, data_dicts, si, bi, trial_idx, block_vars, X_vars, y_vars,
                    src_vars, count_vars, vis_vars, run_vars >>

\* Lines 185-196: stack the lists into arrays and return.
StackTrials ==
    /\ prog = "visualize" /\ pc = "stack"
    /\ pc' = "done"
    /\ UNCHANGED << prog, data_dicts, si, bi, trial_idx, block_vars, X_vars, y_vars,
                    src_vars, count_vars, vis_vars, run_vars >>

(***************************************************************************)
(* The recordings a run is given.                                          *)
(***************************************************************************)
SplitKinds == << "const", "cycle" >>
DefaultStd == << 0, 2 >>
StdRows == { << 0, 2 >>, << 2, 0 >>, << 0, 0 >> }

\* One session of one block: every labelling of up to four trials with two
\* characters and rest, and every labelling of up to MaxTrials trials with one
\* character and rest.
OneBlockInputs ==
    UNION { { << MkSession(<< n >>, p, 60, 60, SplitKinds, DefaultStd) >> :
                p \in [1..n -> {"a", "b", REST}] } : n \in {1, 2, 3, 4} }
    \cup
    UNION { { << MkSession(<< n >>, p, 60, 60, SplitKinds, DefaultStd) >> :
                p \in [1..n -> {"a", REST}] } : n \in 1..MaxTrials }

\* Two blocks of up to MaxTrials + 1 trials together, in one session or in
\* two: one character throughout, and at most one rest trial.
BlockPairs == { nm \in (1..MaxTrials) \X (1..MaxTrials) : nm[1] + nm[2] <= MaxTrials + 1 }
OneRest(len) == { [ i \in 1..len |-> IF i = r THEN REST ELSE "a" ] : r \in 0..len }

TwoBlockInputs ==
    UNION { UNION { { << MkSession(<< nm[1], nm[2] >>, p, 60, 60, SplitKinds, DefaultStd) >>,
                      << MkSession(<< nm[1] >>, SubSeq(p, 1, nm[1]), 60, 60,
                                   SplitKinds, DefaultStd),
                         MkSession(<< nm[2] >>, SubSeq(p, nm[1] + 1, nm[1] + nm[2]), 60, 60,
                                   SplitKinds, DefaultStd) >> } :
                    p \in OneRest(nm[1] + nm[2]) } : nm \in BlockPairs }

\* One block of three or four trials of one character: every lead and tail of
\* the recording, every kind of signal on either channel.
SignalInputs(stds) ==
    { << MkSession(<< n >>, [ i \in 1..n |-> "a" ], lead, tail, kinds, vstd) >> :
        n \in {3, 4}, lead \in Leads, tail \in Tails,
        kinds \in [Channels -> ChannelKinds], vstd \in stds }

\* Labels of which one, "period", is in neither table.
LabelInputs ==
    UNION { { << MkSession(<< n >>, p, 60, 60, SplitKinds, DefaultStd) >> :
                p \in [1..n -> {"comma", "period"}] } : n \in 1..2 }

ClassifyInputs == OneBlockInputs \cup TwoBlockInputs \cup SignalInputs({DefaultStd}) \cup LabelInputs
VisualizeInputs ==
    SignalInputs(StdRows)
        \cup { d \in TwoBlockInputs : \A i \in 1..Len(d) : NumTrials(d[i]) = 1 }

NoStats == [ c \in Channels |-> [num |-> 0, rad |-> 0, den |-> 0] ]

\* The state a run starts in: empty lists and counters, the first session.
Fresh ==
    /\ si = 1 /\ bi = 1 /\ trial_idx = 0
    /\ train_trial_idxs = << >>
    /\ neural_to_zscore_based_on = << >>
    /\ block_means = NoStats /\ block_stddevs = NoStats
    /\ X_train = << >> /\ X_validation = << >> /\ X_test = << >>
    /\ y_train = << >> /\ y_validation = << >> /\ y_test = << >>
    /\ src_train = << >> /\ src_validation = << >> /\ src_test = << >>
    /\ validation_count_by_char = EmptyCounter
    /\ test_count_by_char = EmptyCounter
    /\ zscored_neural_activity = << >>
    /\ trial_neural_activities = << >> /\ trial_labels = << >>
    /\ trial_session_idxs = << >> /\ trial_block_idxs = << >>

Init ==
    /\ \/ /\ prog = "classify" /\ data_dicts \in ClassifyInputs /\ pc = "block"
       \/ /\ prog = "visualize" /\ data_dicts \in VisualizeInputs /\ pc = "session"
    /\ Fresh
    /\ run = 1 /\ first_run = << >>

Next ==
    \/ StartBlock
    \/ ProcessTrial
    \/ SmoothValueError
    \/ EncodeKeyError
    \/ Finish
    \/ ZScoreSession
    \/ WindowTrial
    \/ StackValueError
    \/ StackTrials

Spec == Init /\ [][Next]_vars

(***************************************************************************)
(* Running the classification script a second time on the same sessions.   *)
(* The script calls random.shuffle on the random module's own generator    *)
(* and never seeds it, so the second run's shuffles are again any order.   *)
(***************************************************************************)
Returned == << src_vars, X_vars, y_vars >>

Rerun ==
    /\ prog = "classify" /\ pc = "done" /\ run = 1
    /\ run' = 2
    /\ first_run' = Returned
    /\ pc' = "block" /\ si' = 1 /\ bi' = 1 /\ trial_idx' = 0
    /\ train_trial_idxs' = << >>
    /\ neural_to_zscore_based_on' = << >>
    /\ block_means' = NoStats /\ block_stddevs' = NoStats
    /\ X_train' = << >> /\ X_validation' = << >> /\ X_test' = << >>
    /\ y_train' = << >> /\ y_validation' = << >> /\ y_test' = << >>
    /\ src_train' = << >> /\ src_validation' = << >> /\ src_test' = << >>
    /\ validation_count_by_char' = EmptyCounter
    /\ test_count_by_char' = EmptyCounter
    /\ UNCHANGED << prog, data_dicts, vis_vars >>

\* Recordings of at most three trials, whose windows all lie in the recording
\* and whose labels are all in the table: no run on them ends in an error.
RerunInputs ==
    { d \in OneBlockInputs \cup TwoBlockInputs :
        SumSeq([ i \in 1..Len(d) |-> NumTrials(d[i]) ]) <= 3 }

InitRerun ==
    /\ prog = "classify" /\ data_dicts \in RerunInputs /\ pc = "block"
    /\ Fresh
    /\ run = 1 /\ first_run = << >>

NextRerun ==
    \/ StartBlock
    \/ ProcessTrial
    \/ Finish
    \/ Rerun

SpecRerun == InitRerun /\ [][NextRerun]_vars

(***************************************************************************)
(* What the properties below speak of.                                     *)
(***************************************************************************)
Sessions == 1..Len(data_dicts)
Blocks(s) == 1..Len(block_nums(data_dicts[s]))
AllSources == src_train \o src_validation \o src_test

\* The session's trial that a provenance entry <<session, block, index>> names.
TrialOf(from) == BlockTrials(data_dicts[from[1]], from[2])[from[3] + 1]
LabelOf(from) == prompts(data_dicts[from[1]], TrialOf(from))

\* The entries of a provenance list that come from block k of session s and
\* carry the label.
FromBlock(src, s, k) ==
    { i \in 1..Len(src) : src[i][1] = s /\ src[i][2] = block_nums(data_dicts[s])[k] }
FromBlockWith(src, s, k, label) ==
    { i \in FromBlock(src, s, k) : LabelOf(src[i]) = label }

Labels == UNION { Range(data_dicts[s].prompts) : s \in Sessions }

\* C1: no trial (session, block, trial index) is appended to more than one of
\* train, validation and test, nor twice to one of them; every appended
\* window and label has its provenance entry.
C1_NoTrialTwice ==
    /\ \A i, j \in 1..Len(AllSources) : AllSources[i] = AllSources[j] => i = j
    /\ Len(src_train) = Len(X_train) /\ Len(y_train) = Len(X_train)
    /\ Len(src_validation) = Len(X_validation) /\ Len(y_validation) = Len(X_validation)
    /\ Len(src_test) = Len(X_test) /\ Len(y_test) = Len(X_test)

\* A finished run that put trials in all three sets.
C1_Witness ==
    /\ prog = "classify" /\ pc = "done"
    /\ Len(src_train) > 0 /\ Len(src_validation) > 0 /\ Len(src_test) > 0

\* C2: in every block, for every label, the block's trials of that label in
\* validation and those in test differ in number by at most 1.
C2_BlockBalanced ==
    \A s \in Sessions : \A k \in Blocks(s) : \A label \in Labels :
        LET v == Cardinality(FromBlockWith(src_validation, s, k, label))
            t == Cardinality(FromBlockWith(src_test, s, k, label))
        IN  v - t \in {-1, 0, 1}

\* A second block that inherited unequal counters and placed two trials of
\* the label, one in validation and one in test.
C2_Witness ==
    /\ prog = "classify" /\ pc = "smooth"
    /\ \E s \in Sessions : \E k \in Blocks(s) :
         /\ << s, k >> # << 1, 1 >>
         /\ Cardinality(FromBlockWith(src_validation, s, k, "a")) = 1
         /\ Cardinality(FromBlockWith(src_test, s, k, "a")) = 1
         /\ Cardinality(FromBlockWith(src_test, 1, 1, "a")) = 1
         /\ Cardinality(FromBlockWith(src_validation, 1, 1, "a")) = 0

\* The trial that the next iteration of the loop of line 188 handles.
AtTrial == prog = "classify" /\ pc = "trial"
CurLabel == prompts(Session, CurrentTrials[trial_idx + 1])
HeldOut == AtTrial /\ CurLabel # REST /\ ~ Contains(train_trial_idxs, trial_idx)
ValidationGrows == Len(X_validation') = Len(X_validation) + 1
TestGrows == Len(X_test') = Len(X_test) + 1

\* C3, as the claim states it: a held-out trial whose label has equal
\* validation and test counts goes to validation, and a trial goes to test
\* only when the label's test count is strictly the smaller.
C3_TiesToValidation ==
    [][ HeldOut =>
          LET v == Count(validation_count_by_char, CurLabel)
              t == Count(test_count_by_char, CurLabel)
          IN  /\ v = t => ValidationGrows
              /\ TestGrows => t < v ]_vars

\* C3, amended: a held-out trial goes to validation only when its label's
\* validation count is strictly smaller than its test count; on equal counts
\* (the label's first trial included) and on a larger validation count it
\* goes to test.
C3_TiesToTest ==
    [][ HeldOut =>
          LET v == Count(validation_count_by_char, CurLabel)
              t == Count(test_count_by_char, CurLabel)
          IN  /\ v < t => ValidationGrows /\ ~ TestGrows
              /\ v >= t => TestGrows /\ ~ ValidationGrows ]_vars

\* Three held-out trials of one label were placed: the first on a 0-0 tie,
\* the second with validation behind, the third on a 1-1 tie.
C3_Witness ==
    /\ prog = "classify"
    /\ Count(validation_count_by_char, "a") = 1
    /\ Count(test_count_by_char, "a") = 2

\* Whether the window of the trial a provenance entry names lies in the
\* session's recording.
WindowFits(from) ==
    go_cue_bins(data_dicts[from[1]], TrialOf(from)) + REACTION_TIME_BINS
        + TRAINING_WINDOW_BINS <= NumBins(data_dicts[from[1]])

\* C4: a trial whose window extends past the recording's last bin is in none
\* of train, validation and test, and no appended window is shorter than
\* TRAINING_WINDOW_BINS.
C4_OutOfRangeExcluded ==
    /\ \A i \in 1..Len(AllSources) : WindowFits(AllSources[i])
    /\ \A i \in 1..Len(X_train) : Len(X_train[i]) >= TRAINING_WINDOW_BINS
    /\ \A i \in 1..Len(X_validation) : Len(X_validation[i]) >= TRAINING_WINDOW_BINS
    /\ \A i \in 1..Len(X_test) : Len(X_test[i]) >= TRAINING_WINDOW_BINS

NoRest(src) == \A i \in 1..Len(src) : LabelOf(src[i]) # REST

\* C5: a rest trial is never appended to train, validation or test, train
\* designated or not, and processing it leaves both counters as they were.
C5_RestSkipped ==
    /\ [](NoRest(src_train) /\ NoRest(src_validation) /\ NoRest(src_test))
    /\ [][ (AtTrial /\ CurLabel = REST) =>
             UNCHANGED << X_vars, y_vars, src_vars, count_vars >> ]_vars

\* A rest trial that the shuffle designated train has just been processed.
C5_Witness ==
    /\ AtTrial /\ trial_idx > 0
    /\ prompts(Session, CurrentTrials[trial_idx]) = REST
    /\ Contains(train_trial_idxs, trial_idx - 1)
    /\ Count(test_count_by_char, "a") > 0

\* C6: every window has the fixed number of bins, TRAINING_WINDOW_BINS in
\* organize_data and PRE_GO_CUE_BINS + POST_GO_CUE_BINS in prepare_data.
C6_FixedWindowLength ==
    /\ \A i \in 1..Len(X_train) : Len(X_train[i]) = TRAINING_WINDOW_BINS
    /\ \A i \in 1..Len(X_validation) : Len(X_validation[i]) = TRAINING_WINDOW_BINS
    /\ \A i \in 1..Len(X_test) : Len(X_test[i]) = TRAINING_WINDOW_BINS
    /\ \A i \in 1..Len(trial_neural_activities) :
           Len(trial_neural_activities[i]) = PRE_GO_CUE_BINS + POST_GO_CUE_BINS

\* C7: a second run on the same sessions returns the first run's assignment
\* of every trial, the same windows and the same labels.
C7_SameAssignment == (run = 2 /\ pc = "done") => Returned = first_run

Finished == pc \in {"smooth", "done", "ValueError", "KeyError"}
Completed(s, k) == Finished \/ s < si \/ (s = si /\ k < bi)
BlockSize(s, k) == Len(BlockTrials(data_dicts[s], block_nums(data_dicts[s])[k]))
BlockHasRest(s, k) ==
    LET trials == BlockTrials(data_dicts[s], block_nums(data_dicts[s])[k])
    IN  \E i \in 1..Len(trials) : prompts(data_dicts[s], trials[i]) = REST

\* C8: a block of n trials has exactly floor(0.6 n) distinct train indices,
\* and when it holds no rest trial exactly floor(0.6 n) of its trials end in
\* train and the other n - floor(0.6 n) in validation or test.
C8_TrainFraction ==
    /\ AtTrial =>
         LET n == Len(CurrentTrials)
         IN  /\ Len(train_trial_idxs) = (3 * n) \div 5
             /\ \A i \in 1..Len(train_trial_idxs) : train_trial_idxs[i] \in 0..(n - 1)
             /\ \A i, j \in 1..Len(train_trial_idxs) :
                    train_trial_idxs[i] = train_trial_idxs[j] => i = j
    /\ prog = "classify" =>
         \A s \in Sessions : \A k \in Blocks(s) :
            (Completed(s, k) /\ ~ BlockHasRest(s, k)) =>
               LET n == BlockSize(s, k)
               IN  /\ Cardinality(FromBlock(src_train, s, k)) = (3 * n) \div 5
                   /\ Cardinality(FromBlock(src_validation, s, k))
                        + Cardinality(FromBlock(src_test, s, k)) = n - (3 * n) \div 5

\* A finished block of at least four trials, none of them rest.
C8_Witness ==
    /\ prog = "classify" /\ Finished
    /\ BlockSize(1, 1) >= 4 /\ ~ BlockHasRest(1, 1)
    /\ Cardinality(FromBlock(src_train, 1, 1)) >= 2
    /\ Cardinality(FromBlock(src_validation, 1, 1)) >= 1

\* A label table and its inverse: the labels map one-to-one onto 0..K-1 and
\* decoding an encoded label gives the label back.
InverseBijections(chars, char_to_class, class_to_char) ==
    /\ DOMAIN char_to_class = Range(chars)
    /\ DOMAIN class_to_char = 0..(Len(chars) - 1)
    /\ \A ch \in Range(chars) :
          /\ Lookup(char_to_class, ch) \in 0..(Len(chars) - 1)
          /\ class_to_char[Lookup(char_to_class, ch)] = ch
    /\ \A idx \in 0..(Len(chars) - 1) : Lookup(char_to_class, class_to_char[idx]) = idx

Decodes(y, src) ==
    \A i \in 1..Len(y) :
        /\ y[i] \in DOMAIN CLASS_TO_CHAR_MAP
        /\ CLASS_TO_CHAR_MAP[y[i]] = LabelOf(src[i])

\* C9: the 31-label and the 32-label table are each a pair of inverse
\* bijections between the labels and 0..K-1; a finished run's class ids
\* decode to the trials' labels, and a label outside the table ends the run
\* in a KeyError, never in a class id.
C9_LabelRoundTrip ==
    /\ Len(ALL_CHARS) = 31 /\ Len(ALL_CHARS_VIS) = 32
    /\ InverseBijections(ALL_CHARS, CHAR_TO_CLASS_MAP, CLASS_TO_CHAR_MAP)
    /\ InverseBijections(ALL_CHARS_VIS, CHAR_TO_CLASS_MAP_VIS, CLASS_TO_CHAR_MAP_VIS)
    /\ \A ch \in Labels \cup {"period"} :
          /\ ch \notin Range(ALL_CHARS) => Lookup(CHAR_TO_CLASS_MAP, ch) = KeyError
          /\ ch \notin Range(ALL_CHARS_VIS) => Lookup(CHAR_TO_CLASS_MAP_VIS, ch) = KeyError
    /\ (prog = "classify" /\ pc = "done") =>
          /\ Decodes(y_train, src_train)
          /\ Decodes(y_validation, src_validation)
          /\ Decodes(y_test, src_test)
    /\ (prog = "classify" /\ pc = "KeyError") =>
          \E i \in 1..Len(AllSources) : LabelOf(AllSources[i]) \notin Range(ALL_CHARS)
    /\ (prog = "classify" /\ pc = "done") =>
          \A i \in 1..Len(AllSources) : LabelOf(AllSources[i]) \in Range(ALL_CHARS)

\* A finished run that encoded "comma" as class 30.
C9_Witness ==
    /\ prog = "classify" /\ pc = "done"
    /\ \E i \in 1..Len(y_test) : y_test[i] = 30 /\ LabelOf(src_test[i]) = "comma"

ZeroStd(std) == std.den > 0 /\ std.rad = 0
ChannelZero(w, c) == \A j \in 1..Len(w) : IsZero(w[j][c])
Grown(X, XNext) == Len(XNext) > Len(X)

\* C10: a channel whose stddev in the statistics that normalise a block is 0
\* is exactly 0 in every bin of every window of that block, and the run goes
\* on: in organize_data for the window each iteration appends, in
\* prepare_data for the z-scored session and every window cut from it.
C10_ZeroVarianceChannel ==
    /\ [][ AtTrial =>
             /\ pc' \in {"trial", "block", "smooth"}
             /\ \A c \in Channels :
                  ZeroStd(block_stddevs[c]) =>
                     /\ Grown(X_train, X_train') => ChannelZero(X_train'[Len(X_train')], c)
                     /\ Grown(X_validation, X_validation') =>
                            ChannelZero(X_validation'[Len(X_validation')], c)
                     /\ Grown(X_test, X_test') => ChannelZero(X_test'[Len(X_test')], c) ]_vars
    /\ [] ((prog = "visualize" /\ pc # "session") =>
             \A c \in Channels :
                /\ ZeroStd(stdAcrossAllData(Session)[c]) =>
                       ChannelZero(zscored_neural_activity, c)
                /\ \A i \in 1..Len(trial_neural_activities) :
                       ZeroStd(stdAcrossAllData(data_dicts[trial_session_idxs[i] + 1])[c]) =>
                           ChannelZero(trial_neural_activities[i], c))

\* A block whose statistics come from bins where the step channel is constant
\* at 5, two of its windows, which hold its samples 7 and 3, already appended.
C10_Witness ==
    /\ AtTrial /\ trial_idx >= 2
    /\ \E c \in Channels :
         /\ Session.kinds[c] = "step"
         /\ ZeroStd(block_stddevs[c])
         /\ block_means[c].num = 5 * block_means[c].den
    /\ Len(X_test) > 0 /\ Len(X_validation) > 0

\* The bins neural[start_bin:end_bin] holds, as <<first, one past the last>>.
Extended(range) == SliceBounds(NumBins(Session), range[1], range[2])

RECURSIVE BinCount(_)
BinCount(ranges) ==
    IF ranges = << >> THEN 0
    ELSE (Extended(Head(ranges))[2] - Extended(Head(ranges))[1]) + BinCount(Tail(ranges))

\* C11: of a block's n trials, the train-designated ones other than trial
\* n - 1 each contribute exactly the bins from their own delay cue up to the
\* next trial's delay cue, in the order of the shuffle; trial n - 1 and the
\* trials not designated train contribute nothing, and the means and stddevs
\* are taken over exactly those bins.
C11_LastTrialLeftOut ==
    AtTrial =>
        LET trials == CurrentTrials
            n == Len(trials)
            contributing == SelectSeq(train_trial_idxs, LAMBDA i : i # n - 1)
        IN  /\ Len(neural_to_zscore_based_on) = Len(contributing)
            /\ \A k \in 1..Len(contributing) :
                  Extended(neural_to_zscore_based_on[k]) =
                      << delay_cue_bins(Session, trials[contributing[k] + 1]),
                         delay_cue_bins(Session, trials[contributing[k] + 2]) >>
            /\ \A c \in Channels :
                  /\ block_means[c].den = BinCount(neural_to_zscore_based_on)
                  /\ block_stddevs[c].den = BinCount(neural_to_zscore_based_on)

\* A block of four trials whose last trial the shuffle designated train: the
\* other train trial alone contributed its 150 bins.
C11_Witness ==
    /\ AtTrial /\ Len(CurrentTrials) = 4
    /\ Contains(train_trial_idxs, 3)
    /\ Len(neural_to_zscore_based_on) = 1
    /\ block_means[1].den = Layout.trial

\* The bins of the window of the trial a provenance entry names.
WindowOf(from) ==
    LET s == data_dicts[from[1]]
        window_start_bin == go_cue_bins(s, TrialOf(from)) + REACTION_TIME_BINS
    IN  SliceBounds(NumBins(s), window_start_bin, window_start_bin + TRAINING_WINDOW_BINS)

\* Two ranges <<first, one past the last>> that share a bin.
SharesBin(a, b) == a[1] < a[2] /\ b[1] < b[2] /\ a[1] < b[2] /\ b[1] < a[2]

HeldOutOfBlock == { from \in Range(src_validation) \cup Range(src_test) :
                      from[1] = si /\ from[2] = BlockNum }

\* C12: while a block is processed, no bin of the window of a trial of the
\* block that went to validation or test is among the bins accumulated into
\* neural_to_zscore_based_on.
C12_HeldOutBinsNotInStatistics ==
    AtTrial =>
        \A from \in HeldOutOfBlock :
            \A k \in 1..Len(neural_to_zscore_based_on) :
                ~ SharesBin(WindowOf(from), Extended(neural_to_zscore_based_on[k]))

=============================================================================
